---- MODULE Spec2Model ----
(***************************************************************************)
(* Model of the COVID-19 daily-report pipeline of                          *)
(* dagster_pipeline/covid_pipeline/definitions.py: the listing op, the     *)
(* dynamic fan-out, and per item fetch -> validate -> load, run by         *)
(* dagster's step executor.                                                *)
(*                                                                         *)
(* Text is modelled as sequences of one-character strings so that          *)
(* str.lower, str.replace, str.strip and str.endswith are computed.        *)
(***************************************************************************)
EXTENDS Integers, Sequences, FiniteSets, TLC

\* ---------------------------------------------------------------- bounds
\* longest listing response (hence the largest number of branches)
MaxListing == 2
\* most header columns of a payload given to the normalizer
MaxCols == 3
\* most data rows of a payload given to the normalizer
MaxRows == 1
MaxRuns == 2

\* ------------------------------------------------------- program constants
\* RetryPolicy(max_retries=3, ...) of fetch_csv_with_retry
max_retries == 3
\* the only listing / fetch status that is not a failure
HTTP_OK == 200

\* ------------------------------------------------------------------- text
UpperChars ==
    <<"A","B","C","D","E","F","G","H","I","J","K","L","M","N","O","P","Q","R","S","T","U","V","W","X","Y","Z">>
LowerChars ==
    <<"a","b","c","d","e","f","g","h","i","j","k","l","m","n","o","p","q","r","s","t","u","v","w","x","y","z">>

\* one character of str.lower()
LowerChar(c) ==
    IF \E i \in 1..26 : UpperChars[i] = c
    THEN LowerChars[CHOOSE i \in 1..26 : UpperChars[i] = c]
    ELSE c

\* str.lower()
Lower(s) ==
    [i \in 1..Len(s) |-> LowerChar(s[i])]

\* str.replace(old, new) for one-character old and new
Replace(s, old, new) ==
    [i \in 1..Len(s) |-> IF s[i] = old THEN new ELSE s[i]]

\* the characters str.strip() removes
Whitespace ==
    {" ", "\t", "\n", "\r"}

RECURSIVE LStrip(_)
LStrip(s) ==
    IF s = <<>> THEN s
    ELSE IF Head(s) \in Whitespace THEN LStrip(Tail(s)) ELSE s

RECURSIVE RStrip(_)
RStrip(s) ==
    IF s = <<>> THEN s
    ELSE IF s[Len(s)] \in Whitespace THEN RStrip(SubSeq(s, 1, Len(s) - 1)) ELSE s

\* str.strip()
Strip(s) ==
    RStrip(LStrip(s))

\* str.endswith(suffix)
EndsWith(s, suffix) ==
    /\ Len(s) >= Len(suffix)
    /\ SubSeq(s, Len(s) - Len(suffix) + 1, Len(s)) = suffix

\* ------------------------------------------- the canonical schema (49-64)
col_fips ==
    <<"f","i","p","s">>
col_admin2 ==
    <<"a","d","m","i","n","2">>
col_province_state ==
    <<"p","r","o","v","i","n","c","e","_","s","t","a","t","e">>
col_country_region ==
    <<"c","o","u","n","t","r","y","_","r","e","g","i","o","n">>
col_last_update ==
    <<"l","a","s","t","_","u","p","d","a","t","e">>
col_lat ==
    <<"l","a","t">>
col_long_ ==
    <<"l","o","n","g","_">>
col_confirmed ==
    <<"c","o","n","f","i","r","m","e","d">>
col_deaths ==
    <<"d","e","a","t","h","s">>
col_recovered ==
    <<"r","e","c","o","v","e","r","e","d">>
col_active ==
    <<"a","c","t","i","v","e">>
col_combined_key ==
    <<"c","o","m","b","i","n","e","d","_","k","e","y">>
col_incident_rate ==
    <<"i","n","c","i","d","e","n","t","_","r","a","t","e">>
col_case_fatality_ratio ==
    <<"c","a","s","e","_","f","a","t","a","l","i","t","y","_","r","a","t","i","o">>

\* the renamed historical column names (line 71)
old_latitude ==
    <<"l","a","t","i","t","u","d","e">>
old_longitude ==
    <<"l","o","n","g","i","t","u","d","e">>
old_incidence_rate ==
    <<"i","n","c","i","d","e","n","c","e","_","r","a","t","e">>

\* header names as they occur in the daily reports, and one foreign column
hdr_Recovered ==
    <<"R","e","c","o","v","e","r","e","d">>
hdr_Latitude ==
    <<"L","a","t","i","t","u","d","e">>
hdr_Longitude ==
    <<"L","o","n","g","i","t","u","d","e">>
hdr_Confirmed ==
    <<"C","o","n","f","i","r","m","e","d">>
hdr_Province_State ==
    <<"P","r","o","v","i","n","c","e","/","S","t","a","t","e">>
hdr_Last_Update ==
    <<"L","a","s","t"," ","U","p","d","a","t","e">>
hdr_Case_Fatality_Ratio ==
    <<"C","a","s","e","-","F","a","t","a","l","i","t","y","_","R","a","t","i","o">>
hdr_Incidence_Rate ==
    <<"I","n","c","i","d","e","n","c","e","_","R","a","t","e">>
hdr_Notes ==
    <<"N","o","t","e","s">>

\* names of listing entries, and the suffix github_api_list keeps
name_a_csv ==
    <<"a",".","c","s","v">>
name_b_csv ==
    <<"b",".","c","s","v">>
name_csv_bak ==
    <<"c",".","c","s","v",".","b","a","k">>
suffix_csv ==
    <<".","c","s","v">>
name_upper_csv ==
    <<"d",".","C","S","V">>
name_dot_csv ==
    <<".","c","s","v">>

\* ----------------------------------------------------------------- values
\* Python's None: the absent marker
None ==
    [kind |-> "none"]

\* the schema's columns in declaration order (lines 49-64)
SchemaColumns ==
    << col_fips, col_admin2, col_province_state, col_country_region,
       col_last_update, col_lat, col_long_, col_confirmed, col_deaths,
       col_recovered, col_active, col_combined_key, col_incident_rate,
       col_case_fatality_ratio >>

\* the dtype the schema declares per column: pa.Float, pa.String, pa.Timestamp
SchemaDtype(col) ==
    IF col \in {col_admin2, col_province_state, col_country_region, col_combined_key}
    THEN "object"
    ELSE IF col = col_last_update THEN "datetime64" ELSE "float64"

\* numeric_cols (line 83)
numeric_cols ==
    << col_fips, col_lat, col_long_, col_confirmed, col_deaths, col_recovered,
       col_active, col_incident_rate, col_case_fatality_ratio >>

Range(s) ==
    {s[i] : i \in 1..Len(s)}

\* ------------------------------------------------------------ raw payloads
\* A text payload is its leading characters `lead`, then (when `header` is
\* not empty) a header line naming the columns and `rows` data lines.
\* cells[i] is what the data lines hold in column i: "num" (every cell a
\* number), "str" (some cell is text that is no number) or "null" (every
\* cell empty).  `malformed` says the data lines do not tokenize.
CellKinds ==
    {"num", "str", "null"}

HeaderUniverse ==
    << hdr_Recovered, hdr_Latitude, hdr_Longitude, hdr_Confirmed,
       hdr_Province_State, hdr_Last_Update, hdr_Case_Fatality_Ratio,
       hdr_Incidence_Rate, hdr_Notes >>

\* the sequence of the members of index set S, in the universe's order
RECURSIVE Pick(_, _)
Pick(S, from) ==
    IF from > Len(HeaderUniverse) THEN <<>>
    ELSE IF from \in S THEN <<HeaderUniverse[from]>> \o Pick(S, from + 1)
    ELSE Pick(S, from + 1)

Headers ==
    {Pick(S, 1) : S \in {T \in SUBSET (1..Len(HeaderUniverse)) :
                            Cardinality(T) \in 1..MaxCols}}

Text(lead, header, rows, cells, malformed) ==
    [kind |-> "text", lead |-> lead, header |-> header, rows |-> rows,
     cells |-> cells, malformed |-> malformed]

BlankTexts ==
    {Text(l, <<>>, 0, <<>>, FALSE) : l \in {<<>>, <<" ">>, <<" ", "\n">>, <<"\t", "\r", "\n">>}}

CsvTexts ==
    {Text(l, h, r, c, m) :
        l \in {<<>>}, h \in Headers, r \in 0..MaxRows,
        c \in UNION {[1..n -> CellKinds] : n \in 1..MaxCols}, m \in BOOLEAN}

\* the payloads the normalizer is exercised on
RawPayloads ==
    {None} \cup BlankTexts \cup
    {t \in CsvTexts : /\ Len(t.cells) = Len(t.header)
                      /\ t.rows = 0 => (\A i \in 1..Len(t.cells) : t.cells[i] = "null")
                      /\ t.malformed => t.rows > 0}

RECURSIVE JoinComma(_)
JoinComma(names) ==
    IF names = <<>> THEN <<>>
    ELSE IF Len(names) = 1 THEN names[1]
    ELSE names[1] \o <<",">> \o JoinComma(Tail(names))

\* The characters of the payload up to the end of its header line.  The data
\* lines follow; strip() is empty or not whatever they hold, because a header
\* line holds a column name.
TextChars(raw) ==
    raw.lead \o JoinComma(raw.header) \o (IF raw.header = <<>> THEN <<>> ELSE <<"\n">>)

\* ------------------------------------------- validate_and_process_data
\* line 44: raw_csv is None or not raw_csv.strip()
SkipInput(raw) ==
    raw = None \/ Strip(TextChars(raw)) = <<>>

\* dtype pandas infers for a parsed column
InferDtype(rows, cell) ==
    IF rows = 0 THEN "object"
    ELSE IF cell = "str" THEN "object" ELSE "float64"

\* line 67: pd.read_csv(StringIO(raw_csv)); raises on text it cannot tokenize
ReadCsv(raw) ==
    IF raw.malformed \/ raw.header = <<>>
    THEN [ok |-> FALSE, df |-> None]
    ELSE [ok |-> TRUE,
          df |-> [kind |-> "df",
                  columns |-> raw.header,
                  dtype |-> [i \in 1..Len(raw.header) |-> InferDtype(raw.rows, raw.cells[i])],
                  cells |-> raw.cells,
                  nrows |-> raw.rows]]

\* line 70 without its last replace: "/" is kept
NormalizeName_keepsSlash(n) ==
    Replace(Replace(Lower(n), " ", "_"), "-", "_")

\* line 70: .str.lower().str.replace(" ", "_").str.replace("-", "_").str.replace("/", "_")
NormalizeName(n) ==
    Replace(Replace(Replace(Lower(n), " ", "_"), "-", "_"), "/", "_")

\* line 71: rename(columns={"latitude": "lat", "longitude": "long_", "incidence_rate": "incident_rate"})
Rename(n) ==
    IF n = old_latitude THEN col_lat
    ELSE IF n = old_longitude THEN col_long_
    ELSE IF n = old_incidence_rate THEN col_incident_rate
    ELSE n

\* lines 70-71
NormalizeColumns(df) ==
    [df EXCEPT !.columns = [i \in 1..Len(df.columns) |-> Rename(NormalizeName(df.columns[i]))]]

\* lines 74-76: every schema column not yet a column is appended, holding None
RECURSIVE AddMissingFrom(_, _)
AddMissingFrom(df, k) ==
    IF k > Len(SchemaColumns) THEN df
    ELSE IF SchemaColumns[k] \in Range(df.columns) THEN AddMissingFrom(df, k + 1)
    ELSE AddMissingFrom([df EXCEPT !.columns = Append(@, SchemaColumns[k]),
                                   !.dtype = Append(@, "object"),
                                   !.cells = Append(@, "null")], k + 1)

AddMissing(df) ==
    AddMissingFrom(df, 1)

\* lines 79-80: pd.to_datetime(..., errors="coerce") never raises
CoerceTimestamp(df) ==
    [df EXCEPT !.dtype = [i \in 1..Len(df.columns) |->
        IF df.columns[i] = col_last_update THEN "datetime64" ELSE df.dtype[i]]]

\* Whether astype("float64") converts column i: it does unless a cell is text
\* that is no number (numbers, empty cells and None convert).
Converts(df, i) ==
    df.nrows = 0 \/ df.cells[i] # "str"

\* lines 83-86 with pd.to_numeric(errors="coerce"): what does not convert
\* becomes NaN and the column is float64 in every case
CoerceNumeric_forces(df) ==
    [df EXCEPT !.dtype = [i \in 1..Len(df.columns) |->
        IF df.columns[i] \in Range(numeric_cols)
        THEN "float64" ELSE df.dtype[i]]]

\* lines 83-86: astype("float64", errors="ignore") leaves the column as it is
\* when the conversion fails
CoerceNumeric(df) ==
    [df EXCEPT !.dtype = [i \in 1..Len(df.columns) |->
        IF df.columns[i] \in Range(numeric_cols) /\ Converts(df, i)
        THEN "float64" ELSE df.dtype[i]]]

\* line 89: set(df.columns) == {"recovered"}
RecoveredOnly(df) ==
    Range(df.columns) = {col_recovered}

\* line 93: schema.validate(df): every schema column is a column of the
\* declared dtype; every column is nullable and other columns are let through
SchemaValid(df) ==
    \A k \in 1..Len(SchemaColumns) :
        \E i \in 1..Len(df.columns) :
            /\ df.columns[i] = SchemaColumns[k]
            /\ df.dtype[i] = SchemaDtype(SchemaColumns[k])

\* what an op execution ends with: a returned value or a raised exception
Returned(v, logged) ==
    [raised |-> FALSE, value |-> v, log |-> logged]

Raised(logged) ==
    [raised |-> TRUE, value |-> None, log |-> logged]

\* lines 66-98 with read_csv outside the try block: a parse error leaves the op
ProcessCsv_uncaught(raw) ==
    LET parsed == ReadCsv(raw) IN
    IF ~parsed.ok THEN Raised(<<>>)
    ELSE
      LET d1 == NormalizeColumns(parsed.df)
          d2 == AddMissing(d1)
          d3 == CoerceTimestamp(d2)
          d4 == CoerceNumeric(d3)
      IN  IF RecoveredOnly(d4)
          THEN Returned(None, <<"info: only the recovered column">>)
          ELSE IF SchemaValid(d4)
          THEN Returned(d4, <<>>)
          ELSE Returned(None, <<"warning: validation and processing failed">>)

\* lines 66-98, for text that passed line 44
ProcessCsv(raw) ==
    LET parsed == ReadCsv(raw) IN
    IF ~parsed.ok THEN Returned(None, <<"warning: validation and processing failed">>)
    ELSE
      LET d1 == NormalizeColumns(parsed.df)
          d2 == AddMissing(d1)
          d3 == CoerceTimestamp(d2)
          d4 == CoerceNumeric(d3)
      IN  IF RecoveredOnly(d4)
          THEN Returned(None, <<"info: only the recovered column">>)
          ELSE IF SchemaValid(d4)
          THEN Returned(d4, <<>>)
          ELSE Returned(None, <<"warning: validation and processing failed">>)

\* line 44 as `if not raw_csv.strip():` alone: None has no strip(), and the
\* AttributeError is raised outside the try block
validate_and_process_data_stripFirst(raw) ==
    IF raw = None THEN Raised(<<>>)
    ELSE IF Strip(TextChars(raw)) = <<>>
    THEN Returned(None, <<"warning: raw csv is none or empty">>)
    ELSE ProcessCsv(raw)

\* lines 43-98
validate_and_process_data(raw) ==
    IF SkipInput(raw)
    THEN Returned(None, <<"warning: raw csv is none or empty">>)
    ELSE ProcessCsv(raw)

\* df.empty: no rows or no columns
Empty(df) ==
    df.nrows = 0 \/ df.columns = <<>>

\* --------------------------------------------------------- github_api_list
\* entries of the listing response: file_info["name"], file_info["download_url"]
Entry(name) ==
    [name |-> name, download_url |-> <<"u", "/">> \o name]

\* the names of the listed directory, in the order the endpoint lists them
\* (by name)
ListingNames ==
    <<name_a_csv, name_b_csv, name_csv_bak>>

ListingEntries ==
    {Entry(ListingNames[k]) : k \in 1..Len(ListingNames)}

NameRank(name) ==
    CHOOSE k \in 1..Len(ListingNames) : ListingNames[k] = name

\* a response body lists its entries by name; a name may be listed again
ByName(file_data) ==
    \A k \in 1..(Len(file_data) - 1) :
        NameRank(file_data[k].name) <= NameRank(file_data[k + 1].name)

RECURSIVE SeqsUpTo(_, _)
SeqsUpTo(S, n) ==
    IF n = 0 THEN {<<>>}
    ELSE LET shorter == SeqsUpTo(S, n - 1)
         IN  shorter \cup {Append(s, x) : s \in shorter, x \in S}

\* what requests.get answers: a status and a body, or it raises (transport)
ListingResponses ==
    {[transport |-> FALSE, status_code |-> st, file_data |-> fd] :
        st \in {HTTP_OK, 403},
        fd \in {d \in SeqsUpTo(ListingEntries, MaxListing) : ByName(d)}}
    \cup {[transport |-> TRUE, status_code |-> 0, file_data |-> <<>>]}

\* any directory content in any order: names that end in ".csv" (one of them
\* nothing but the suffix), one that holds ".csv" before another extension and
\* one that ends in ".CSV"
AnyListingResponses ==
    {[transport |-> FALSE, status_code |-> st, file_data |-> fd] :
        st \in {HTTP_OK, 403},
        fd \in SeqsUpTo(ListingEntries \cup {Entry(name_upper_csv), Entry(name_dot_csv)},
                        MaxListing + 1)}
    \cup {[transport |-> TRUE, status_code |-> 0, file_data |-> <<>>]}

\* line 26 without the `if`: every entry's download_url
CsvUrls_keepAll(file_data) ==
    [k \in 1..Len(file_data) |-> file_data[k].download_url]

\* line 26: the download_url of the entries whose name ends with ".csv"
RECURSIVE CsvUrls(_)
CsvUrls(file_data) ==
    IF file_data = <<>> THEN <<>>
    ELSE (IF EndsWith(Head(file_data).name, suffix_csv)
          THEN <<Head(file_data).download_url>> ELSE <<>>)
         \o CsvUrls(Tail(file_data))

\* lines 19-27 without the status test of lines 23-24
github_api_list_noStatusCheck(response) ==
    IF response.transport THEN Raised(<<>>)
    ELSE Returned(CsvUrls(response.file_data), <<>>)

\* lines 19-27
github_api_list(response) ==
    IF response.transport THEN Raised(<<>>)
    ELSE IF response.status_code # HTTP_OK THEN Raised(<<>>)
    ELSE Returned(CsvUrls(response.file_data), <<>>)

\* lines 29-32: one DynamicOutput per position, mapping_key = str(idx)
emit_urls(file_urls) ==
    [i \in 1..Len(file_urls) |-> [mapping_key |-> i - 1, value |-> file_urls[i]]]

\* ---------------------------------------------------- fetch_csv_with_retry
\* the payloads the fetch endpoint serves in a run
ServedPayloads ==
    { Text(<<>>, <<hdr_Recovered>>, 1, <<"num">>, FALSE),
      Text(<<>>, <<hdr_Latitude, hdr_Longitude, hdr_Confirmed>>, 1, <<"num", "num", "num">>, FALSE),
      Text(<<>>, <<hdr_Confirmed>>, 0, <<"null">>, FALSE),
      Text(<<>>, <<hdr_Confirmed>>, 1, <<"str">>, FALSE) }

\* validate_and_process_data over everything a branch can hand it in a run
\* (a served payload, or None from a failed fetch), evaluated once
ValidateResult ==
    [p \in ServedPayloads \cup {None} |-> validate_and_process_data(p)]

FetchResponses ==
    {[transport |-> FALSE, status_code |-> HTTP_OK, text |-> p] : p \in ServedPayloads}
    \cup {[transport |-> FALSE, status_code |-> 404, text |-> None]}
    \cup {[transport |-> TRUE, status_code |-> 0, text |-> None]}

\* lines 35-40 raising on a non-success status instead of returning None
fetch_csv_with_retry_raiseOnStatus(response) ==
    IF response.transport \/ response.status_code # HTTP_OK THEN Raised(<<>>)
    ELSE Returned(response.text, <<>>)

\* lines 35-40: one execution of the op body on the response of its one request
fetch_csv_with_retry(response) ==
    IF response.transport THEN Raised(<<>>)
    ELSE IF response.status_code # HTTP_OK
    THEN Returned(None, <<"warning: failed to fetch csv">>)
    ELSE Returned(response.text, <<>>)

\* ---------------------------------------------------- load_data_to_postgres
\* where the sink fails in one call, if it does
SinkFaults ==
    {"none", "create_engine", "connect", "create_schema", "to_sql"}

\* lines 107-120 with the insert issued before the namespace statement
SinkCallOrder_insertFirst ==
    <<"create_engine", "connect", "to_sql", "create_schema">>

\* the calls of lines 107-120 in order
SinkCallOrder ==
    <<"create_engine", "connect", "create_schema", "to_sql">>

\* the calls issued when the sink fails at `fault`: all up to the failing one
CallsUntil(fault) ==
    IF fault = "none" THEN SinkCallOrder
    ELSE SubSeq(SinkCallOrder, 1, CHOOSE k \in 1..Len(SinkCallOrder) : SinkCallOrder[k] = fault)

\* line 102 as `if df is None:` alone
NothingToLoad_noneOnly(df) ==
    df = None

\* line 102: df is None or df.empty
NothingToLoad(df) ==
    df = None \/ Empty(df)

\* the rows one to_sql call appends for the item with mapping key `key`
SinkRows(key, n) ==
    [k \in 1..n |-> [mapping_key |-> key, row |-> k]]

\* lines 101-124 with if_exists="replace": the table is dropped and rewritten
load_data_to_postgres_replace(key, df, fault, table) ==
    IF df = None \/ Empty(df)
    THEN [raised |-> FALSE, calls |-> <<>>, table |-> table,
          log |-> <<"warning: no data to load">>]
    ELSE IF fault = "none"
    THEN [raised |-> FALSE, calls |-> CallsUntil(fault),
          table |-> SinkRows(key, df.nrows),
          log |-> <<"info: loading", "info: loaded">>]
    ELSE [raised |-> TRUE, calls |-> CallsUntil(fault), table |-> table,
          log |-> (IF fault = "create_engine" THEN <<>> ELSE <<"info: loading">>)
                  \o <<"error: failed to load">>]

\* lines 101-124 with a sink that drops a row it already holds (a unique key on
\* the table): a second load of the same rows adds nothing
load_data_to_postgres_dedup(key, df, fault, table) ==
    IF df = None \/ Empty(df)
    THEN [raised |-> FALSE, calls |-> <<>>, table |-> table,
          log |-> <<"warning: no data to load">>]
    ELSE IF fault = "none"
    THEN [raised |-> FALSE, calls |-> CallsUntil(fault),
          table |-> table \o SelectSeq(SinkRows(key, df.nrows),
                                       LAMBDA r : \A k \in 1..Len(table) : table[k] # r),
          log |-> <<"info: loading", "info: loaded">>]
    ELSE [raised |-> TRUE, calls |-> CallsUntil(fault), table |-> table,
          log |-> (IF fault = "create_engine" THEN <<>> ELSE <<"info: loading">>)
                  \o <<"error: failed to load">>]

\* lines 101-124 without the `raise` of line 124: the error is only logged
load_data_to_postgres_swallows(key, df, fault, table) ==
    IF df = None \/ Empty(df)
    THEN [raised |-> FALSE, calls |-> <<>>, table |-> table,
          log |-> <<"warning: no data to load">>]
    ELSE IF fault = "none"
    THEN [raised |-> FALSE, calls |-> CallsUntil(fault),
          table |-> table \o SinkRows(key, df.nrows),
          log |-> <<"info: loading", "info: loaded">>]
    ELSE [raised |-> FALSE, calls |-> CallsUntil(fault), table |-> table,
          log |-> (IF fault = "create_engine" THEN <<>> ELSE <<"info: loading">>)
                  \o <<"error: failed to load">>]

\* lines 101-124: the calls made to the sink, the table raw.covid_data after
\* them (if_exists="append"), what is logged and how the op ends
load_data_to_postgres(key, df, fault, table) ==
    IF NothingToLoad(df)
    THEN [raised |-> FALSE, calls |-> <<>>, table |-> table,
          log |-> <<"warning: no data to load">>]
    ELSE IF fault = "none"
    THEN [raised |-> FALSE, calls |-> CallsUntil(fault),
          table |-> table \o SinkRows(key, df.nrows),
          log |-> <<"info: loading", "info: loaded">>]
    ELSE [raised |-> TRUE, calls |-> CallsUntil(fault), table |-> table,
          log |-> (IF fault = "create_engine" THEN <<>> ELSE <<"info: loading">>)
                  \o <<"error: failed to load">>]

\* ------------------------------------------------------------------ state
VARIABLES
    run,        \* the run: "start", "listed", "mapped", or "list_failed"
    listing,    \* the listing endpoint's response, once asked
    file_urls,  \* what github_api_list returned
    branch,     \* per emitted DynamicOutput: the steps mapped over it
    sink,       \* rows of raw.covid_data, in the order appended
    sinkCalls,  \* every call made to the sink, in order
    nPc,        \* the normalizer exercised alone: "off", "ready", "validated",
                \* then "loaded" or "load_failed"
    nIn,        \* ... its input
    nOut,       \* ... what it ended with
    loads,      \* the loader over several runs: per run, the loads made so far
    twin        \* two runs side by side that agree on one item (TwinSpec)

vars ==
    <<run, listing, file_urls, branch, sink, sinkCalls, nPc, nIn, nOut, loads, twin>>

NoResponse ==
    [kind |-> "no response"]

NotRun ==
    [kind |-> "not run"]

NoTwin ==
    [kind |-> "no twin"]

\* lines 131-136 without `.map(fetch_csv_with_retry)`: the mapped chain starts
\* at validate_and_process_data
NewBranch_noFetch(out) ==
    [mapping_key |-> out.mapping_key, file_url |-> out.value, stage |-> "validate",
     retries |-> 0, responses |-> <<>>, fetched |-> "pending", raw |-> None,
     df |-> None, outcome |-> "running", failed_at |-> "none", log |-> <<>>]

\* The branch of one DynamicOutput: fetch, validate and load wait in that
\* order.  retries and responses are the fetch step's record (its
\* re-executions and the answers to its requests); they are kept until the
\* step's result is handed to validate, as raw is.
NewBranch(out) ==
    [mapping_key |-> out.mapping_key, file_url |-> out.value, stage |-> "fetch",
     retries |-> 0, responses |-> <<>>, fetched |-> "pending", raw |-> None,
     df |-> None, outcome |-> "running", failed_at |-> "none", log |-> <<>>]

Terminal(b) ==
    b.outcome \in {"loaded", "skipped", "failed"}

\* an executor that stops the run at the first failed step: the steps of
\* every other branch that has not ended are canceled
StepFailed_AbortsRun(b, i, op) ==
    [j \in DOMAIN b |->
        IF j = i
        THEN [b[j] EXCEPT !.stage = "failed", !.outcome = "failed", !.failed_at = op]
        ELSE IF b[j].outcome \in {"loaded", "skipped", "failed"} THEN b[j]
        ELSE [b[j] EXCEPT !.stage = "canceled", !.outcome = "canceled"]]

\* a retry policy on every op: a load that raised is left to run again
StepFailed_retriesLoad(b, i, op) ==
    IF op = "load" THEN b
    ELSE [b EXCEPT ![i].stage = "failed", ![i].outcome = "failed", ![i].failed_at = op]

\* ------------------------------------------------ dagster's step executor
\* A step that raised is marked failed; the steps downstream of it (the rest
\* of its branch) are skipped; the steps of the other mapping keys run on.
StepFailed(b, i, op) ==
    [b EXCEPT ![i].stage = "failed", ![i].outcome = "failed", ![i].failed_at = op]

\* line 34: RetryPolicy(max_retries=3): a raised execution is run again until
\* max_retries re-executions are used up, then the step fails
\* RetryPolicy with max_retries=0: a raised exception fails the step at once
RetryOrFail_never(b, i, op) ==
    StepFailed(b, i, op)

\* RetryPolicy without a bound: a raised exception always re-executes the op
RetryOrFail_always(b, i, op) ==
    [b EXCEPT ![i].retries = @ + 1]

RetryOrFail(b, i, op) ==
    IF b[i].retries < max_retries
    THEN [b EXCEPT ![i].retries = @ + 1]
    ELSE StepFailed(b, i, op)

ResponseKind(response) ==
    IF response.transport THEN "transport"
    ELSE IF response.status_code = HTTP_OK THEN "ok" ELSE "status"

SinkCallsOf(key, calls) ==
    [k \in 1..Len(calls) |-> [mapping_key |-> key, call |-> calls[k]]]

\* the branches after branch i's fetch step got `response` (line 133)
FetchStep(b, i, response) ==
    LET out == fetch_csv_with_retry(response)
        b1  == [b EXCEPT ![i].responses = Append(@, ResponseKind(response)),
                         ![i].log = @ \o out.log]
    IN  IF out.raised
        THEN [RetryOrFail(b1, i, "fetch") EXCEPT ![i].fetched = "raised"]
        ELSE [b1 EXCEPT ![i].stage = "validate",
                        ![i].raw = out.value,
                        ![i].fetched = IF out.value = None THEN "absent" ELSE "payload"]

\* the branches after branch i's validate step (line 134)
ValidateStep(b, i) ==
    LET out == ValidateResult[b[i].raw]
        b1  == [b EXCEPT ![i].log = @ \o out.log, ![i].raw = None,
                         ![i].retries = 0, ![i].responses = <<>>]
    IN  IF out.raised
        THEN StepFailed(b1, i, "validate")
        ELSE [b1 EXCEPT ![i].stage = "load", ![i].df = out.value]

\* the branches after branch i's load step ended with `out` (line 135)
LoadStep(b, i, out) ==
    LET b1 == [b EXCEPT ![i].log = @ \o out.log]
    IN  IF out.raised
        THEN StepFailed(b1, i, "load")
        ELSE [b1 EXCEPT ![i].stage = "done",
                        ![i].outcome = IF out.calls = <<>> THEN "skipped" ELSE "loaded"]

\* ---------------------------------------------------------------- actions
Init ==
    /\ run = "start"
    /\ listing = NoResponse
    /\ file_urls = <<>>
    /\ branch = <<>>
    /\ sink = <<>>
    /\ sinkCalls = <<>>
    /\ nPc = "off"
    /\ nIn = None
    /\ nOut = NotRun
    /\ loads = <<>>
    /\ twin = NoTwin

\* lines 128, 19-27: the listing op runs once; raising fails the run's only
\* root step, so nothing downstream executes
ListFiles ==
    /\ run = "start"
    /\ \E response \in ListingResponses :
        LET out == github_api_list(response) IN
        /\ listing' = response
        /\ IF out.raised
           THEN run' = "list_failed" /\ file_urls' = <<>>
           ELSE run' = "listed" /\ file_urls' = out.value
    /\ UNCHANGED <<branch, sink, sinkCalls, nPc, nIn, nOut, loads, twin>>

\* lines 129, 131-136: emit_urls, and the three ops mapped over each output
EmitUrls ==
    /\ run = "listed"
    /\ run' = "mapped"
    /\ branch' = [i \in 1..Len(file_urls) |-> NewBranch(emit_urls(file_urls)[i])]
    /\ UNCHANGED <<listing, file_urls, sink, sinkCalls, nPc, nIn, nOut, loads, twin>>

\* line 133: one execution of fetch_csv_with_retry for branch i
Fetch(i) ==
    /\ run = "mapped"
    /\ branch[i].stage = "fetch"
    /\ \E response \in FetchResponses :
        branch' = FetchStep(branch, i, response)
    /\ UNCHANGED <<run, listing, file_urls, sink, sinkCalls, nPc, nIn, nOut, loads, twin>>

\* line 134: validate_and_process_data for branch i, on what its fetch returned
Validate(i) ==
    /\ run = "mapped"
    /\ branch[i].stage = "validate"
    /\ branch' = ValidateStep(branch, i)
    /\ UNCHANGED <<run, listing, file_urls, sink, sinkCalls, nPc, nIn, nOut, loads, twin>>

\* line 135: load_data_to_postgres for branch i, on what its validate returned
Load(i) ==
    /\ run = "mapped"
    /\ branch[i].stage = "load"
    /\ \E fault \in SinkFaults :
        LET out == load_data_to_postgres(branch[i].mapping_key, branch[i].df, fault, sink)
        IN  /\ sinkCalls' = sinkCalls \o SinkCallsOf(branch[i].mapping_key, out.calls)
            /\ sink' = out.table
            /\ branch' = LoadStep(branch, i, out)
    /\ UNCHANGED <<run, listing, file_urls, nPc, nIn, nOut, loads, twin>>

Next ==
    \/ ListFiles
    \/ EmitUrls
    \/ \E i \in DOMAIN branch : Fetch(i)
    \/ \E i \in DOMAIN branch : Validate(i)
    \/ \E i \in DOMAIN branch : Load(i)

Spec ==
    Init /\ [][Next]_vars

\* The executor runs every step whose upstream steps succeeded: no ready step
\* waits forever.
FairSpec ==
    /\ Spec
    /\ WF_vars(ListFiles)
    /\ WF_vars(EmitUrls)
    /\ \A i \in 1..MaxListing :
        WF_vars(i \in DOMAIN branch /\ (Fetch(i) \/ Validate(i) \/ Load(i)))

\* ------------------------------------------- the normalizer on its own
\* validate_and_process_data, then load_data_to_postgres on its result, for
\* every payload of RawPayloads
NormInit ==
    /\ run = "start"
    /\ listing = NoResponse
    /\ file_urls = <<>>
    /\ branch = <<>>
    /\ sink = <<>>
    /\ sinkCalls = <<>>
    /\ nPc = "ready"
    /\ nIn \in RawPayloads
    /\ nOut = NotRun
    /\ loads = <<>>
    /\ twin = NoTwin

NormValidate ==
    /\ nPc = "ready"
    /\ nOut' = validate_and_process_data(nIn)
    /\ nPc' = "validated"
    /\ UNCHANGED <<run, listing, file_urls, branch, sink, sinkCalls, nIn, loads, twin>>

NormLoad ==
    /\ nPc = "validated"
    /\ ~nOut.raised
    /\ \E fault \in SinkFaults :
        LET out == load_data_to_postgres(0, nOut.value, fault, sink) IN
        /\ sinkCalls' = sinkCalls \o SinkCallsOf(0, out.calls)
        /\ sink' = out.table
        /\ nPc' = IF out.raised THEN "load_failed" ELSE "loaded"
    /\ UNCHANGED <<run, listing, file_urls, branch, nIn, nOut, loads, twin>>

NormNext ==
    \/ NormValidate
    \/ NormLoad

NormSpec ==
    NormInit /\ [][NormNext]_vars

\* ------------------------------------------------- two runs side by side
\* Two runs of the job, A and B, over listings of two items.  They agree on
\* one item: its position, its locator and every answer it gets (the fetch
\* endpoint's and the sink's), so its steps are taken in both runs at once with
\* the same answer.  The other item (the sibling) has its own locator in each
\* run (in run A the item's locator once more, in run B any) and steps in each
\* run on its own, with any answer, at any time.  Of each run the branches and
\* the rows of the sink are kept.
TwinUrls ==
    {Entry(name_a_csv).download_url, Entry(name_b_csv).download_url}

TwinRun(urls) ==
    [branch |-> [i \in 1..2 |-> NewBranch(emit_urls(urls)[i])], sink |-> <<>>]

\* the position of the item's sibling
Sibling(item) ==
    3 - item

RunFetch(r, i, response) ==
    [r EXCEPT !.branch = FetchStep(@, i, response)]

RunValidate(r, i) ==
    [r EXCEPT !.branch = ValidateStep(@, i)]

RunLoad(r, i, fault) ==
    LET out == load_data_to_postgres(r.branch[i].mapping_key, r.branch[i].df, fault, r.sink)
    IN  [branch |-> LoadStep(r.branch, i, out), sink |-> out.table]

\* both runs have the item's step `stage` ready
ItemAt(stage) ==
    /\ twin # NoTwin
    /\ twin.A.branch[twin.item].stage = stage
    /\ twin.B.branch[twin.item].stage = stage

\* run `name` has the sibling's step `stage` ready
SiblingAt(name, stage) ==
    /\ twin # NoTwin
    /\ twin[name].branch[Sibling(twin.item)].stage = stage

TwinInit ==
    /\ run = "mapped"
    /\ listing = NoResponse
    /\ file_urls = <<>>
    /\ branch = <<>>
    /\ sink = <<>>
    /\ sinkCalls = <<>>
    /\ nPc = "off"
    /\ nIn = None
    /\ nOut = NotRun
    /\ loads = <<>>
    /\ \E item \in 1..2, b \in [1..2 -> TwinUrls] :
        LET a == [i \in 1..2 |-> Entry(name_a_csv).download_url]
        IN  /\ a[item] = b[item]
            /\ twin = [kind |-> "twin", item |-> item, A |-> TwinRun(a), B |-> TwinRun(b)]

TwinItemFetch ==
    /\ ItemAt("fetch")
    /\ \E response \in FetchResponses :
        twin' = [twin EXCEPT !.A = RunFetch(@, twin.item, response),
                             !.B = RunFetch(@, twin.item, response)]
    /\ UNCHANGED <<run, listing, file_urls, branch, sink, sinkCalls, nPc, nIn, nOut, loads>>

TwinItemValidate ==
    /\ ItemAt("validate")
    /\ twin' = [twin EXCEPT !.A = RunValidate(@, twin.item),
                            !.B = RunValidate(@, twin.item)]
    /\ UNCHANGED <<run, listing, file_urls, branch, sink, sinkCalls, nPc, nIn, nOut, loads>>

TwinItemLoad ==
    /\ ItemAt("load")
    /\ \E fault \in SinkFaults :
        twin' = [twin EXCEPT !.A = RunLoad(@, twin.item, fault),
                             !.B = RunLoad(@, twin.item, fault)]
    /\ UNCHANGED <<run, listing, file_urls, branch, sink, sinkCalls, nPc, nIn, nOut, loads>>

TwinSiblingFetch(name) ==
    /\ SiblingAt(name, "fetch")
    /\ \E response \in FetchResponses :
        twin' = [twin EXCEPT ![name] = RunFetch(@, Sibling(twin.item), response)]
    /\ UNCHANGED <<run, listing, file_urls, branch, sink, sinkCalls, nPc, nIn, nOut, loads>>

TwinSiblingValidate(name) ==
    /\ SiblingAt(name, "validate")
    /\ twin' = [twin EXCEPT ![name] = RunValidate(@, Sibling(twin.item))]
    /\ UNCHANGED <<run, listing, file_urls, branch, sink, sinkCalls, nPc, nIn, nOut, loads>>

TwinSiblingLoad(name) ==
    /\ SiblingAt(name, "load")
    /\ \E fault \in SinkFaults :
        twin' = [twin EXCEPT ![name] = RunLoad(@, Sibling(twin.item), fault)]
    /\ UNCHANGED <<run, listing, file_urls, branch, sink, sinkCalls, nPc, nIn, nOut, loads>>

TwinNext ==
    \/ TwinItemFetch
    \/ TwinItemValidate
    \/ TwinItemLoad
    \/ \E name \in {"A", "B"} : TwinSiblingFetch(name)
    \/ \E name \in {"A", "B"} : TwinSiblingValidate(name)
    \/ \E name \in {"A", "B"} : TwinSiblingLoad(name)

TwinSpec ==
    TwinInit /\ [][TwinNext]_vars

\* ---------------------------------------------- the listing on any directory
\* github_api_list and emit_urls on a listing in any order
ListAnyOrder ==
    /\ run = "start"
    /\ \E response \in AnyListingResponses :
        LET out == github_api_list(response)
        IN  /\ listing' = response
            /\ IF out.raised
               THEN run' = "list_failed" /\ file_urls' = <<>>
               ELSE run' = "listed" /\ file_urls' = out.value
    /\ UNCHANGED <<branch, sink, sinkCalls, nPc, nIn, nOut, loads, twin>>

ListNext ==
    \/ ListAnyOrder
    \/ EmitUrls

ListSpec ==
    Init /\ [][ListNext]_vars

\* ------------------------------------------------- the mapped steps alone
\* A run from the point where emit_urls has yielded the outputs of the listing
\* [a.csv, b.csv]: only the mapped steps are left to run.  The executor keeps
\* launching steps as long as one is ready.
MappedInit ==
    /\ run = "mapped"
    /\ listing = [transport |-> FALSE, status_code |-> HTTP_OK,
                  file_data |-> <<Entry(name_a_csv), Entry(name_b_csv)>>]
    /\ file_urls = github_api_list(listing).value
    /\ branch = [i \in 1..Len(file_urls) |-> NewBranch(emit_urls(file_urls)[i])]
    /\ sink = <<>>
    /\ sinkCalls = <<>>
    /\ nPc = "off"
    /\ nIn = None
    /\ nOut = NotRun
    /\ loads = <<>>
    /\ twin = NoTwin

MappedNext ==
    \/ \E i \in DOMAIN branch : Fetch(i)
    \/ \E i \in DOMAIN branch : Validate(i)
    \/ \E i \in DOMAIN branch : Load(i)

MappedSpec ==
    MappedInit /\ [][MappedNext]_vars /\ WF_vars(MappedNext)

\* ------------------------------------------------ the sink over several runs
\* The job run again and again against one sink. A run is taken from the point
\* where the mapped branches reach load_data_to_postgres: each mapping key is
\* loaded at most once per run, with any table validate_and_process_data can
\* return for a served payload (or None), and the sink may fail at any call.
SinkKeys ==
    {0, 1}

\* where a load of these runs fails, if it does: before the insert or in it
SinkRunFaults ==
    {"none", "create_schema", "to_sql"}

SinkTables ==
    {ValidateResult[p].value : p \in DOMAIN ValidateResult}

SinkInit ==
    /\ run = "mapped"
    /\ listing = NoResponse
    /\ file_urls = <<>>
    /\ branch = <<>>
    /\ sink = <<>>
    /\ sinkCalls = <<>>
    /\ nPc = "off"
    /\ nIn = None
    /\ nOut = NotRun
    /\ loads = << <<>> >>
    /\ twin = NoTwin

\* one mapped load_data_to_postgres of the current run
SinkLoad ==
    /\ loads # <<>>
    /\ \E key \in SinkKeys, df \in SinkTables, fault \in SinkRunFaults :
        LET this == loads[Len(loads)]
            out == load_data_to_postgres(key, df, fault, sink)
        IN  /\ \A k \in 1..Len(this) : this[k].mapping_key # key
            /\ sink' = out.table
            /\ sinkCalls' = sinkCalls \o SinkCallsOf(key, out.calls)
            /\ loads' = [loads EXCEPT ![Len(loads)] =
                            Append(@, [mapping_key |-> key,
                                       nrows |-> IF df = None THEN 0 ELSE df.nrows,
                                       raised |-> out.raised])]
    /\ UNCHANGED <<run, listing, file_urls, branch, nPc, nIn, nOut, twin>>

\* the job is launched again; the sink is left as it is
SinkNewRun ==
    /\ loads # <<>>
    /\ Len(loads) < MaxRuns
    /\ loads' = Append(loads, <<>>)
    /\ UNCHANGED <<run, listing, file_urls, branch, sink, sinkCalls, nPc, nIn, nOut, twin>>

SinkNext ==
    \/ SinkLoad
    \/ SinkNewRun

SinkSpec ==
    SinkInit /\ [][SinkNext]_vars

\* ------------------------------------------------------------- properties
\* the sink calls and the sink rows of the item with mapping key `key`
CallsOf(key) ==
    SelectSeq(sinkCalls, LAMBDA c : c.mapping_key = key)

RowsOf(key) ==
    SelectSeq(sink, LAMBDA r : r.mapping_key = key)

AllRows(key, n) ==
    [k \in 1..n |-> [mapping_key |-> key, row |-> k]]

Canonical ==
    {SchemaColumns[k] : k \in 1..Len(SchemaColumns)}

\* the normalized name of the foreign header column
norm_notes ==
    <<"n", "o", "t", "e", "s">>

\* validate_and_process_data has run on nIn (its result is nOut)
NormRan ==
    nPc \in {"validated", "loaded", "load_failed"}

\* C1: for a listing of N work items the fan-out holds exactly N branches,
\* branch i carrying mapping key i-1 and the i-th locator (equal locators
\* included); every branch that has not ended can take its next step whatever
\* the others did, a failed sibling included; and a step of one branch leaves
\* every other branch as it was.
C1_BranchPerPosition ==
    /\ [](run = "mapped" =>
            /\ DOMAIN branch = 1..Len(file_urls)
            /\ \A i \in DOMAIN branch :
                /\ branch[i].mapping_key = i - 1
                /\ branch[i].file_url = file_urls[i]
                /\ Terminal(branch[i]) \/ ENABLED (Fetch(i) \/ Validate(i) \/ Load(i)))
    /\ [][\A i \in DOMAIN branch :
            branch'[i] # branch[i] =>
                \A j \in DOMAIN branch \ {i} : branch'[j] = branch[j]]_vars

\* two branches of the same locator: the first failed, the second loaded
C1_Witness ==
    /\ run = "mapped"
    /\ Len(branch) = 2
    /\ file_urls[1] = file_urls[2]
    /\ branch[1].outcome = "failed"
    /\ branch[2].outcome = "loaded"

\* the fetch step of branch i has been answered, and only by non-success statuses
OnlyStatusResponses(i) ==
    /\ branch[i].responses # <<>>
    /\ \A k \in 1..Len(branch[i].responses) : branch[i].responses[k] = "status"

\* C2 as stated: a locator answered only by non-success statuses is requested
\* exactly 3 times, and the fetch then returns None.
C2_ThreeAttempts ==
    \A i \in DOMAIN branch :
        (OnlyStatusResponses(i) /\ branch[i].stage # "fetch") =>
            /\ Len(branch[i].responses) = 3
            /\ branch[i].fetched = "absent"

\* C2 (amended): a locator answered only by non-success statuses is requested
\* exactly once: the first such answer makes the fetch return None, without
\* raising and without a re-execution.
C2_OneAttempt ==
    \A i \in DOMAIN branch :
        OnlyStatusResponses(i) =>
            /\ Len(branch[i].responses) = 1
            /\ branch[i].retries = 0
            /\ branch[i].stage = "validate"
            /\ branch[i].fetched = "absent"
            /\ branch[i].raw = None

C2_Witness ==
    \E i \in DOMAIN branch :
        /\ branch[i].responses = <<"status">>
        /\ branch[i].stage = "validate"
        /\ branch[i].fetched = "absent"

\* C3: a branch ends failed only because of the sink write; no branch fails
\* at the fetch stage or the normalize stage.
C3_OnlyLoadTerminates ==
    \A i \in DOMAIN branch :
        branch[i].outcome = "failed" => branch[i].failed_at = "load"

\* C4 as stated: a returned table has exactly the 14 canonical columns.
C4_ExactlyCanonical ==
    (NormRan /\ nOut.value # None) =>
        Range(nOut.value.columns) = Canonical

\* C4 (amended): a returned table has every one of the 14 canonical columns,
\* each once, and besides them exactly the non-canonical columns of the input
\* header (normalized); so exactly the 14 when the header has none.
C4_CanonicalAndForeign ==
    (NormRan /\ nOut.value # None) =>
        /\ Canonical \subseteq Range(nOut.value.columns)
        /\ Range(nOut.value.columns) \ Canonical =
              IF hdr_Notes \in Range(nIn.header) THEN {norm_notes} ELSE {}
        /\ Len(nOut.value.columns) = Cardinality(Range(nOut.value.columns))

\* a table returned for a header with a foreign column and renamed columns
C4_Witness ==
    /\ NormRan
    /\ nOut.value # None
    /\ hdr_Notes \in Range(nIn.header)
    /\ hdr_Latitude \in Range(nIn.header)
    /\ hdr_Province_State \in Range(nIn.header)

\* C5: a payload whose only column is recovered is skipped: the result is
\* None and nothing of it reaches the sink, whatever its rows.
C5_RecoveredOnlySkipped ==
    (NormRan /\ nIn # None /\ nIn.header = <<hdr_Recovered>>) =>
        /\ nOut.value = None
        /\ sink = <<>>

\* nIn is None, the empty string or whitespace only
AbsentOrBlank ==
    \/ nIn = None
    \/ /\ nIn.header = <<>>
       /\ \A k \in 1..Len(nIn.lead) : nIn.lead[k] \in {" ", "\t", "\n", "\r"}

\* C6: on None, the empty string or a whitespace-only string the normalizer
\* returns None and does not raise.
C6_AbsentStaysAbsent ==
    (NormRan /\ AbsentOrBlank) =>
        /\ ~nOut.raised
        /\ nOut.value = None

C6_Witness ==
    /\ NormRan
    /\ nIn # None
    /\ nIn.header = <<>>
    /\ Len(nIn.lead) >= 2
    /\ ~nOut.raised
    /\ nOut.value = None

\* the load step of branch i has run
LoadRan(i) ==
    \/ branch[i].stage = "done"
    \/ branch[i].stage = "failed" /\ branch[i].failed_at = "load"

\* C7: a load given None or a table of no rows makes no call to the sink (no
\* engine, no connection, no CREATE SCHEMA, no insert), appends nothing and
\* returns without raising.
C7_NothingToLoadNoCall ==
    \A i \in DOMAIN branch :
        (LoadRan(i) /\ (branch[i].df = None \/ branch[i].df.nrows = 0)) =>
            /\ CallsOf(branch[i].mapping_key) = <<>>
            /\ RowsOf(branch[i].mapping_key) = <<>>
            /\ branch[i].outcome = "skipped"

\* a load of a table with columns and no rows, and a load of None
C7_Witness ==
    /\ Len(branch) = 2
    /\ LoadRan(1) /\ branch[1].df # None /\ branch[1].df.nrows = 0
    /\ LoadRan(2) /\ branch[2].df = None

\* the sink was called for branch i and no row of it was appended: the
\* connection or the write failed
SinkFaulted(i) ==
    /\ CallsOf(branch[i].mapping_key) # <<>>
    /\ RowsOf(branch[i].mapping_key) = <<>>

\* C8: a failure while connecting or writing is logged as an error and
\* re-raised: the branch ends failed at load; and the step in which a branch
\* fails changes no other branch.
C8_LoadFailureFailsItsBranchOnly ==
    /\ [](\A i \in DOMAIN branch :
            SinkFaulted(i) =>
                /\ branch[i].outcome = "failed"
                /\ branch[i].failed_at = "load"
                /\ branch[i].log[Len(branch[i].log)] = "error: failed to load")
    /\ [][\A i \in DOMAIN branch :
            (branch[i].outcome # "failed" /\ branch'[i].outcome = "failed") =>
                \A j \in DOMAIN branch \ {i} : branch'[j] = branch[j]]_vars

\* the first branch failed at the insert, the second loaded after it
C8_Witness ==
    /\ Len(branch) = 2
    /\ branch[1].outcome = "failed"
    /\ branch[1].failed_at = "load"
    /\ Len(CallsOf(0)) = 4
    /\ branch[2].outcome = "loaded"
    /\ sinkCalls[Len(sinkCalls)].mapping_key = 1

\* the listing endpoint answered with a non-success status
ListingRefused ==
    /\ listing # NoResponse
    /\ ~listing.transport
    /\ listing.status_code # HTTP_OK

\* C9: after a non-success listing status the run is over before any fan-out:
\* no branch exists, so no fetch request is made, and the sink is never called.
C9_ListingErrorAborts ==
    ListingRefused =>
        /\ run = "list_failed"
        /\ file_urls = <<>>
        /\ branch = <<>>
        /\ sink = <<>>
        /\ sinkCalls = <<>>

\* a refused listing whose body names csv files
C9_Witness ==
    /\ ListingRefused
    /\ run = "list_failed"
    /\ \E k \in 1..Len(listing.file_data) : listing.file_data[k].name = name_a_csv

\* branch i holds a table with rows
HasRows(i) ==
    IF branch[i].df = None THEN FALSE ELSE branch[i].df.nrows > 0

\* every row of the sink was appended by a branch of the run
NoRowsBeyondBranches ==
    \A k \in 1..Len(sink) : \E i \in DOMAIN branch : sink[k].mapping_key = branch[i].mapping_key

\* an item whose fetch ended absent makes no sink call and does not fail
AbsentFetchIsSkipped(i) ==
    (branch[i].fetched = "absent") =>
        /\ CallsOf(branch[i].mapping_key) = <<>>
        /\ branch[i].outcome # "failed"
        /\ Terminal(branch[i]) => branch[i].outcome = "skipped"

RunEnded ==
    run = "mapped" /\ \A i \in DOMAIN branch : Terminal(branch[i])

\* C10 as stated: when the run has ended, the sink holds exactly the rows of
\* the items whose fetch returned a payload and whose normalization returned a
\* table with rows.
C10_RowsOfNormalizedItems ==
    RunEnded =>
        /\ NoRowsBeyondBranches
        /\ \A i \in DOMAIN branch :
            /\ RowsOf(branch[i].mapping_key) =
                  IF HasRows(i) THEN AllRows(branch[i].mapping_key, branch[i].df.nrows)
                  ELSE <<>>
            /\ AbsentFetchIsSkipped(i)

\* C10 (amended): the sink holds exactly the rows of the items whose fetch
\* returned a payload, whose normalization returned a table with rows and whose
\* load did not fail, each row once; an item whose fetch ended absent makes no
\* sink call and its branch ends skipped, not failed.
C10_RowsOfLoadedItems ==
    /\ NoRowsBeyondBranches
    /\ \A i \in DOMAIN branch :
        /\ RowsOf(branch[i].mapping_key) =
              IF Terminal(branch[i]) /\ HasRows(i) /\ branch[i].outcome # "failed"
              THEN AllRows(branch[i].mapping_key, branch[i].df.nrows)
              ELSE <<>>
        /\ AbsentFetchIsSkipped(i)

\* items [a.csv, b.csv]: the first fetch ended absent, the second loaded its row
C10_Witness ==
    /\ RunEnded
    /\ Len(branch) = 2
    /\ branch[1].file_url # branch[2].file_url
    /\ branch[1].fetched = "absent" /\ branch[1].outcome = "skipped"
    /\ branch[2].fetched = "payload" /\ branch[2].outcome = "loaded"
    /\ Len(sink) = 1

\* every load of every run so far, in order
RECURSIVE AllLoads(_)
AllLoads(runs) ==
    IF runs = <<>> THEN <<>> ELSE Head(runs) \o AllLoads(Tail(runs))

\* how many loads of a table holding row `row` of item `key` went through
LoadedTimes(key, row) ==
    Len(SelectSeq(AllLoads(loads),
                  LAMBDA l : l.mapping_key = key /\ ~l.raised /\ l.nrows >= row))

\* how often the sink holds row `row` of item `key`
HeldTimes(key, row) ==
    Len(SelectSeq(sink, LAMBDA r : r.mapping_key = key /\ r.row = row))

IsPrefix(s, t) ==
    Len(s) <= Len(t) /\ SubSeq(t, 1, Len(s)) = s

\* C11: the sink is append-only: no load and no new run removes, rewrites or
\* reorders a row already held, and after any sequence of runs the sink holds
\* every row of every table loaded, once per load that went through, so that a
\* second run over the same payloads leaves each loaded row present twice.
C11_SinkAppendOnly ==
    /\ [](\A key \in SinkKeys, row \in 1..(MaxRows + 1) :
            HeldTimes(key, row) = LoadedTimes(key, row))
    /\ [][IsPrefix(sink, sink')]_vars

\* two runs loaded the same one-row table of item 0: its row is held twice
C11_Witness ==
    /\ Len(loads) = 2
    /\ \A r \in 1..2 : \E k \in 1..Len(loads[r]) :
            loads[r][k] = [mapping_key |-> 0, nrows |-> 1, raised |-> FALSE]
    /\ HeldTimes(0, 1) = 2

\* every response of branch i before its last one was a transport error
OnlyTransportBeforeLast(i) ==
    \A k \in 1..(Len(branch[i].responses) - 1) : branch[i].responses[k] = "transport"

\* C12 as stated: a transport error during fetch is never followed by another
\* request for the same item (it is not retried) and it ends the run: the item
\* fails at once and no item of the run is loaded.
C12_TransportNotRetried ==
    \A i \in DOMAIN branch :
        \A k \in 1..Len(branch[i].responses) :
            branch[i].responses[k] = "transport" =>
                /\ k = Len(branch[i].responses)
                /\ branch[i].outcome = "failed"
                /\ \A j \in DOMAIN branch : branch[j].outcome # "loaded"

\* C12 (amended): a transport error is the one failure of fetch that is
\* retried. The exception leaves the op and the RetryPolicy re-executes it, up
\* to max_retries times; a non-success status is never retried (the op returns
\* None after that one request). When max_retries + 1 requests in a row ended
\* in a transport error the fetch step fails, which ends that item's branch
\* only: the step leaves every other branch as it was.
C12_TransportRetried ==
    /\ [](\A i \in DOMAIN branch :
            /\ OnlyTransportBeforeLast(i)
            /\ branch[i].stage = "fetch" =>
                  /\ branch[i].retries = Len(branch[i].responses)
                  /\ branch[i].retries <= max_retries
                  /\ \A k \in 1..Len(branch[i].responses) :
                        branch[i].responses[k] = "transport"
            /\ branch[i].failed_at = "fetch" =>
                  /\ Len(branch[i].responses) = max_retries + 1
                  /\ branch[i].responses[max_retries + 1] = "transport"
            /\ (branch[i].responses # <<>>
                 /\ branch[i].responses[Len(branch[i].responses)] = "status") =>
                  /\ branch[i].stage = "validate"
                  /\ branch[i].fetched = "absent")
    /\ [][\A i \in DOMAIN branch :
            (branch[i].failed_at = "none" /\ branch'[i].failed_at = "fetch") =>
                \A j \in DOMAIN branch \ {i} : branch'[j] = branch[j]]_vars

\* item 0 failed at fetch after max_retries + 1 transport errors and item 1
\* was loaded all the same
C12_Witness ==
    /\ Len(branch) = 2
    /\ branch[1].failed_at = "fetch"
    /\ branch[1].responses = [k \in 1..(max_retries + 1) |-> "transport"]
    /\ branch[2].outcome = "loaded"

\* the last four characters of `name` are ".csv"
EndsInDotCsv(name) ==
    /\ Len(name) >= 4
    /\ name[Len(name) - 3] = "."
    /\ name[Len(name) - 2] = "c"
    /\ name[Len(name) - 1] = "s"
    /\ name[Len(name)] = "v"

\* the entries of the listing response that are kept, in the response's order
KeptEntries ==
    SelectSeq(listing.file_data, LAMBDA e : EndsInDotCsv(e.name))

\* C13: for a successful listing response github_api_list returns the
\* download_url of exactly the entries whose name ends in ".csv", one per such
\* entry and in the order of the response; no other entry becomes a work item.
C13_CsvEntriesInOrder ==
    (run \in {"listed", "mapped"}) =>
        /\ Len(file_urls) = Len(KeptEntries)
        /\ \A k \in 1..Len(file_urls) : file_urls[k] = KeptEntries[k].download_url
        /\ run = "mapped" =>
              /\ Len(branch) = Len(KeptEntries)
              /\ \A k \in 1..Len(branch) : branch[k].file_url = KeptEntries[k].download_url

\* the response [c.csv.bak, b.csv, a.csv] gave the work items b.csv, a.csv
C13_Witness ==
    /\ run = "mapped"
    /\ Len(listing.file_data) = 3
    /\ listing.file_data[1].name = name_csv_bak
    /\ listing.file_data[2].name = name_b_csv
    /\ listing.file_data[3].name = name_a_csv
    /\ Len(branch) = 2
    /\ branch[1].file_url = Entry(name_b_csv).download_url
    /\ branch[2].file_url = Entry(name_a_csv).download_url

\* the sink call at position p was issued by the same load call as the one
\* before it
SameLoadCall(p) ==
    sinkCalls[p - 1].mapping_key = sinkCalls[p].mapping_key

\* C14: every insert (to_sql) is issued right after the CREATE SCHEMA IF NOT
\* EXISTS raw of the same load call, which follows that call's one connect on
\* its one engine; a namespace statement that failed is the last call of its
\* load, so that no insert is issued and no row of the item is held.
C14_NamespaceBeforeInsert ==
    /\ \A p \in 1..Len(sinkCalls) :
        sinkCalls[p].call = "to_sql" =>
            /\ p > 3
            /\ sinkCalls[p - 1].call = "create_schema" /\ SameLoadCall(p)
            /\ sinkCalls[p - 2].call = "connect" /\ SameLoadCall(p - 1)
            /\ sinkCalls[p - 3].call = "create_engine" /\ SameLoadCall(p - 2)
    /\ \A i \in DOMAIN branch :
        LET calls == CallsOf(branch[i].mapping_key)
        IN  /\ Len(SelectSeq(calls, LAMBDA c : c.call = "connect")) <= 1
            /\ (calls # <<>> /\ calls[Len(calls)].call = "create_schema") =>
                  /\ branch[i].failed_at = "load"
                  /\ RowsOf(branch[i].mapping_key) = <<>>
            /\ RowsOf(branch[i].mapping_key) # <<>> =>
                  (calls # <<>> /\ calls[Len(calls)].call = "to_sql")

\* item 0's load failed in the namespace statement and issued no insert;
\* item 1's load issued its insert after the namespace statement
C14_Witness ==
    /\ Len(branch) = 2
    /\ Len(CallsOf(0)) = 3 /\ CallsOf(0)[3].call = "create_schema"
    /\ branch[1].failed_at = "load"
    /\ Len(CallsOf(1)) = 4 /\ CallsOf(1)[4].call = "to_sql"
    /\ branch[2].outcome = "loaded"

\* the headers of the universe that name one of the numeric columns
NumericHeaders ==
    {hdr_Recovered, hdr_Latitude, hdr_Longitude, hdr_Confirmed,
     hdr_Case_Fatality_Ratio, hdr_Incidence_Rate}

\* nIn is text that passes line 44
NormText ==
    nIn # None /\ nIn.header # <<>>

\* the data lines of nIn hold, in the column headed h, cells of kind `kind`
Holds(h, kind) ==
    /\ nIn.rows > 0
    /\ \E i \in 1..Len(nIn.header) : nIn.header[i] = h /\ nIn.cells[i] = kind

\* read_csv fails on nIn
ParseFails ==
    NormText /\ nIn.malformed

\* nIn parses and a numeric column of it holds text that is no number
CoercionFails ==
    /\ NormText /\ ~nIn.malformed
    /\ \E h \in NumericHeaders : Holds(h, "str")

\* nIn parses and its province_state column is read as numbers, which the
\* schema's pa.String rejects
SchemaFails ==
    /\ NormText /\ ~nIn.malformed
    /\ (Holds(hdr_Province_State, "num") \/ Holds(hdr_Province_State, "null"))

\* C15: on any payload validate_and_process_data returns a table or None and
\* does not raise; text that does not parse, text with a numeric column that
\* does not convert and text whose table the schema rejects each end as None
\* with the warning of the except block logged.
C15_NeverRaises ==
    NormRan =>
        /\ ~nOut.raised
        /\ nOut.value = None \/ nOut.value.kind = "df"
        /\ (ParseFails \/ CoercionFails \/ SchemaFails) =>
              /\ nOut.value = None
              /\ nOut.log = <<"warning: validation and processing failed">>

\* text whose data lines do not tokenize ended as None with the warning
C15_Witness ==
    /\ NormRan
    /\ ParseFails
    /\ ~nOut.raised
    /\ nOut.value = None
    /\ nOut.log = <<"warning: validation and processing failed">>

\* column `col` of table df has dtype `dtype`
HasDtype(df, col, dtype) ==
    \A i \in 1..Len(df.columns) : df.columns[i] = col => df.dtype[i] = dtype

\* C18: in a returned table each of the 9 numeric columns is float64 and
\* last_update is datetime64, and no numeric column of the input held text
\* that is no number; such text raises nothing in the coercion step and the
\* file ends as None.
C18_TableOnlyIfCoerced ==
    NormRan =>
        /\ nOut.value # None =>
              /\ \A k \in 1..Len(numeric_cols) :
                    /\ numeric_cols[k] \in Range(nOut.value.columns)
                    /\ HasDtype(nOut.value, numeric_cols[k], "float64")
              /\ col_last_update \in Range(nOut.value.columns)
              /\ HasDtype(nOut.value, col_last_update, "datetime64")
              /\ \A h \in NumericHeaders : ~Holds(h, "str")
        /\ CoercionFails => (~nOut.raised /\ nOut.value = None)

\* Latitude converted, Confirmed held text that is no number: the file ended
\* as None
C18_Witness ==
    /\ NormRan
    /\ NormText /\ ~nIn.malformed
    /\ Holds(hdr_Latitude, "num")
    /\ Holds(hdr_Confirmed, "str")
    /\ ~nOut.raised
    /\ nOut.value = None

\* the position of a stage in the mapped chain; an ended branch is past it
StageRank(stage) ==
    IF stage = "fetch" THEN 0
    ELSE IF stage = "validate" THEN 1
    ELSE IF stage = "load" THEN 2
    ELSE 3

\* C16: per item the ops run in the order fetch, validate, load. A branch
\* never goes back to an earlier op and skips none; validate is reached only
\* by a fetch that returned and holds the one value it consumes until it has
\* run; load is reached only by a validate that returned, after which the raw
\* payload is gone; so validate and load each run at most once per item. When
\* every branch has ended no step of the job is left to run (no fan-in).
C16_StagesInOrder ==
    /\ [](\A i \in DOMAIN branch :
            /\ branch[i].stage = "fetch" =>
                  /\ branch[i].fetched \in {"pending", "raised"}
                  /\ branch[i].raw = None /\ branch[i].df = None
            /\ branch[i].stage = "validate" =>
                  /\ branch[i].fetched \in {"absent", "payload"}
                  /\ (branch[i].fetched = "payload") = (branch[i].raw # None)
                  /\ branch[i].df = None
            /\ branch[i].stage \in {"load", "done"} =>
                  /\ branch[i].fetched \in {"absent", "payload"}
                  /\ branch[i].raw = None
            /\ branch[i].failed_at = "fetch" => branch[i].df = None
            /\ branch[i].stage \in {"fetch", "validate"} =>
                  CallsOf(branch[i].mapping_key) = <<>>)
    /\ [](RunEnded => ~ENABLED Next)
    /\ [][\A i \in DOMAIN branch :
            LET old == StageRank(branch[i].stage)
                new == StageRank(branch'[i].stage)
            IN  /\ new >= old
                /\ new > old => (new = old + 1 \/ branch'[i].stage = "failed")
                /\ (old = 1 /\ new = 2) => branch'[i].raw = None
                /\ (old = 2) => (new = 3 \/ branch'[i] = branch[i])]_vars

\* item 0 went through fetch, validate and load and was loaded while item 1,
\* fetched after it, still waits for its validate
C16_Witness ==
    /\ Len(branch) = 2
    /\ branch[1].stage = "done" /\ branch[1].outcome = "loaded"
    /\ branch[2].stage = "validate" /\ branch[2].raw # None
    /\ CallsOf(1) = <<>>

\* the inserts issued for the item with mapping key `key`
InsertsOf(key) ==
    SelectSeq(CallsOf(key), LAMBDA c : c.call = "to_sql")

\* C19: in one run at most one insert is issued per work item, so at most N
\* for N listed items. No sink call is made for an item while its fetch can
\* still be re-executed, and a load that raised is not run again: it issued
\* at most one create_engine and its branch has ended.
C19_OneInsertPerItem ==
    /\ \A i \in DOMAIN branch :
        /\ Len(InsertsOf(branch[i].mapping_key)) <= 1
        /\ Len(SelectSeq(CallsOf(branch[i].mapping_key),
                         LAMBDA c : c.call = "create_engine")) <= 1
        /\ branch[i].stage = "fetch" => CallsOf(branch[i].mapping_key) = <<>>
        /\ CallsOf(branch[i].mapping_key) # <<>> => Terminal(branch[i])
    /\ Len(SelectSeq(sinkCalls, LAMBDA c : c.call = "to_sql")) <= Len(file_urls)
    /\ \A k \in 1..Len(sinkCalls) :
        \E i \in DOMAIN branch : branch[i].mapping_key = sinkCalls[k].mapping_key

\* item 0's one insert failed and item 1 was loaded with its one insert
C19_Witness ==
    /\ Len(branch) = 2
    /\ branch[1].failed_at = "load"
    /\ Len(InsertsOf(0)) = 1
    /\ branch[2].outcome = "loaded"
    /\ Len(InsertsOf(1)) = 1
    /\ Len(sink) = 1

\* how many of the responses were transport errors
Transports(responses) ==
    Len(SelectSeq(responses, LAMBDA r : r = "transport"))

\* C20: whatever the responses, at most max_retries + 1 requests are made for
\* an item: one per execution of the op, and the op is re-executed only after
\* a raised transport error, max_retries times at most. Every branch of a
\* mapped run ends as loaded, skipped or failed.
C20_BoundedRequestsAndTermination ==
    /\ [](\A i \in DOMAIN branch :
            /\ Len(branch[i].responses) <= max_retries + 1
            /\ branch[i].retries <= max_retries
            /\ branch[i].stage \in {"fetch", "validate"} =>
                  /\ branch[i].retries = Transports(branch[i].responses)
                  /\ Len(branch[i].responses) \in {branch[i].retries, branch[i].retries + 1}
            /\ branch[i].failed_at = "fetch" =>
                  /\ branch[i].retries = max_retries
                  /\ Transports(branch[i].responses) = max_retries + 1)
    /\ (run = "mapped") ~> RunEnded

\* the run ended; item 0 was loaded, item 1 failed after max_retries + 1
\* transport errors
C20_Witness ==
    /\ RunEnded
    /\ Len(branch) = 2
    /\ branch[1].outcome = "loaded"
    /\ branch[2].failed_at = "fetch"
    /\ Len(branch[2].responses) = max_retries + 1

\* the rows the item holds in the sink of run r
TwinRows(r) ==
    SelectSeq(r.sink, LAMBDA x : x.mapping_key = r.branch[twin.item].mapping_key)

\* C17: two runs that agree on an item's position, locator and answers agree
\* on everything of that item at every moment: its stage, what it was handed,
\* its outcome (loaded, skipped or failed, and where it failed), its log and
\* the rows it appended, whatever the sibling was asked to fetch, whatever it
\* was answered and however its steps fall between the item's.
C17_ItemIndependentOfSiblings ==
    twin # NoTwin =>
        /\ twin.A.branch[twin.item] = twin.B.branch[twin.item]
        /\ TwinRows(twin.A) = TwinRows(twin.B)

\* the item was loaded in both runs with the same row; its sibling failed at
\* fetch in run A and was loaded before the item in run B
C17_Witness ==
    /\ twin # NoTwin
    /\ twin.A.branch[twin.item].outcome = "loaded"
    /\ twin.B.branch[twin.item].outcome = "loaded"
    /\ TwinRows(twin.A) # <<>>
    /\ twin.A.branch[Sibling(twin.item)].failed_at = "fetch"
    /\ twin.B.branch[Sibling(twin.item)].outcome = "loaded"
    /\ Len(twin.B.sink) = 2
    /\ twin.B.sink[1].mapping_key = twin.B.branch[Sibling(twin.item)].mapping_key
    /\ twin.A.branch[Sibling(twin.item)].file_url # twin.B.branch[Sibling(twin.item)].file_url
====
